---- MODULE Spec2Model ----
(***************************************************************************)
(* Model of dharma.domain.repos.in_memory.InMemoryRepository: a class-     *)
(* scoped in-memory object store with two pieces of class-level state,     *)
(* the registry table _REGISTERS and the superclass index                  *)
(* _SUPER_KLASSES_WITH_REPO, shared by every store instance.               *)
(***************************************************************************)
EXTENDS Integers, Sequences, FiniteSets, TLC

VARIABLES REGISTERS, SUPER_KLASSES_WITH_REPO, inst, last, ops

vars == <<ops, REGISTERS, SUPER_KLASSES_WITH_REPO, inst, last>>

(* ---------------------------- bounds ----------------------------------- *)
MaxBatch == 2
MaxOps == 4

(* ---------------------------- inputs ----------------------------------- *)
Klasses == {"Animal", "Dog", "Puppy"}

Ids == {1, 2}

Objs == {[id |-> 1, name |-> "Rex"], [id |-> 1, name |-> "Max"], [id |-> 2, name |-> "Rex"]}

Handles == {"r1", "r2"}

Injective(f) == \A i, j \in DOMAIN f : f[i] = f[j] => i = j

Batches == UNION {{b \in [1..n -> Objs] : Injective(b)} : n \in 1..MaxBatch}

(* Predicates are callables; "falsy" and "falsy_rex" are callables whose   *)
(* truth value is false (a __bool__ returning False, a __len__ of 0).     *)
Predicates == {"any", "rex", "none", "falsy", "falsy_rex"}

predicate(p, obj) ==
    CASE p = "any" -> TRUE
      [] p = "rex" -> obj.name = "Rex"
      [] p = "falsy_rex" -> obj.name = "Rex"
      [] OTHER -> FALSE

truthy(p) == p \in {"any", "rex", "none"}

NoInst == [klass |-> "-", qualname |-> "-", anc |-> {}]

None == "None"

(* ------------------------ external collaborators ----------------------- *)
get_dotted_path(k) ==
    CASE k = "Animal" -> "zoo.Animal"
      [] k = "Dog" -> "zoo.Dog"
      [] k = "Puppy" -> "zoo.Puppy"
      [] OTHER -> "builtins.object"

mro(k) ==
    CASE k = "Animal" -> <<"Animal", "object">>
      [] k = "Dog" -> <<"Dog", "Animal", "object">>
      [] k = "Puppy" -> <<"Puppy", "Dog", "Animal", "object">>
      [] OTHER -> <<"object">>

get_id(obj) == obj.id

(* ------------------- Python dict, in insertion order ------------------- *)
DictHas(d, k) == \E i \in 1..Len(d) : d[i].k = k

DictGet(d, k) == d[CHOOSE i \in 1..Len(d) : d[i].k = k].o

DictSet(d, k, o) ==
    IF DictHas(d, k)
    THEN [i \in 1..Len(d) |-> IF d[i].k = k THEN [k |-> k, o |-> o] ELSE d[i]]
    ELSE Append(d, [k |-> k, o |-> o])

DictPop(d, k) == SelectSeq(d, LAMBDA e : e.k # k)

DictValues(d) == [i \in 1..Len(d) |-> d[i].o]

DictKeys(d) == {d[i].k : i \in 1..Len(d)}

(* ------------------------------ results -------------------------------- *)
Ok(v) == [exc |-> "none", msg |-> "", val |-> v]

Raise(e, m) == [exc |-> e, msg |-> m, val |-> None]

NO_REPOSITORY_MSG == "No repository for {} has been found"

NOT_FOUND_MSG == "Id '{}' in {} hasn't been found"

(* ---------------------------- construction ----------------------------- *)
Range(seq) == {seq[i] : i \in 1..Len(seq)}

find_super_repos_whole_mro(regs, supers, qualname, klass) ==
    IF qualname \in DOMAIN supers
    THEN supers[qualname]
    ELSE [i \in 1..Len(mro(klass)) |-> get_dotted_path(mro(klass)[i])]

find_super_repos(regs, supers, qualname, klass) ==
    IF qualname \in DOMAIN supers
    THEN supers[qualname]
    ELSE SelectSeq([i \in 1..Len(mro(klass)) |-> get_dotted_path(mro(klass)[i])],
                   LAMBDA q : q \in DOMAIN regs)

init_supers_recompute(regs, supers, qualname, klass) ==
    [q \in DOMAIN supers \cup {qualname} |->
        IF q = qualname
        THEN SelectSeq([i \in 1..Len(mro(klass)) |-> get_dotted_path(mro(klass)[i])],
                       LAMBDA a : a \in DOMAIN regs)
        ELSE supers[q]]

init_supers(regs, supers, qualname, klass) ==
    IF qualname \notin DOMAIN supers
    THEN supers @@ (qualname :> find_super_repos(regs, supers, qualname, klass))
    ELSE supers

init_registers_fresh(regs, qualname) ==
    [q \in DOMAIN regs \cup {qualname} |-> IF q = qualname THEN <<>> ELSE regs[q]]

init_registers(regs, qualname) ==
    IF qualname \notin DOMAIN regs
    THEN regs @@ (qualname :> <<>>)
    ELSE regs

init_qualname_per_instance(s, klass) ==
    IF s = "r1"
    THEN get_dotted_path(klass)
    ELSE CASE klass = "Animal" -> "r2.zoo.Animal"
           [] klass = "Dog" -> "r2.zoo.Dog"
           [] OTHER -> "r2.zoo.Puppy"

init_qualname(s, klass) == get_dotted_path(klass)

ProperAncestors(klass) ==
    {get_dotted_path(mro(klass)[i]) : i \in 2..Len(mro(klass))}

(* ------------------------ administrative hooks ------------------------- *)
clear_all_repos_drop_keys(regs) == [q \in {} |-> <<>>]

clear_all_repos(regs) == [q \in DOMAIN regs |-> <<>>]

register_klass_setdefault(regs, klass) ==
    LET qualname == get_dotted_path(klass) IN
    [q \in DOMAIN regs \cup {qualname} |-> IF q \in DOMAIN regs THEN regs[q] ELSE <<>>]

register_klass(regs, klass) ==
    LET qualname == get_dotted_path(klass) IN
    [q \in DOMAIN regs \cup {qualname} |-> IF q = qualname THEN <<>> ELSE regs[q]]

(* ------------------------------ queries -------------------------------- *)
get(regs, qualname, id) ==
    IF qualname \notin DOMAIN regs
    THEN Raise("NotFound", NO_REPOSITORY_MSG)
    ELSE IF DictHas(regs[qualname], id)
         THEN Ok(DictGet(regs[qualname], id))
         ELSE Raise("NotFound", NOT_FOUND_MSG)

get_or_none(regs, qualname, id) ==
    IF qualname \notin DOMAIN regs
    THEN Raise("NotFound", NO_REPOSITORY_MSG)
    ELSE IF DictHas(regs[qualname], id)
         THEN Ok(DictGet(regs[qualname], id))
         ELSE Ok(None)

all(regs, qualname) ==
    IF qualname \notin DOMAIN regs
    THEN Raise("NotFound", NO_REPOSITORY_MSG)
    ELSE Ok(DictValues(regs[qualname]))

exists(regs, qualname, id) ==
    IF qualname \notin DOMAIN regs
    THEN Raise("NotFound", NO_REPOSITORY_MSG)
    ELSE Ok(DictHas(regs[qualname], id))

filter(regs, qualname, p) ==
    IF qualname \notin DOMAIN regs
    THEN Raise("NotFound", NO_REPOSITORY_MSG)
    ELSE Ok(SelectSeq(DictValues(regs[qualname]), LAMBDA obj : predicate(p, obj)))

count(regs, qualname, p) ==
    IF ~truthy(p)
    THEN IF qualname \notin DOMAIN regs
         THEN Raise("NotFound", NO_REPOSITORY_MSG)
         ELSE Ok(Len(regs[qualname]))
    ELSE LET filtered == filter(regs, qualname, p) IN
         IF filtered.exc # "none" THEN filtered ELSE Ok(Len(filtered.val))

(* ----------------------------- mutations ------------------------------- *)
(* An intermediate result is bound with  CHOOSE out \in {e(r) : r \in {x}}  *)
(* so that x is computed once.                                             *)
ASSERT_MSG == "Id conflict in super repos"

fan_out_check_all_first(regs, super_klasses, i, id, obj) ==
    IF \E n \in i..Len(super_klasses) :
          super_klasses[n] \in DOMAIN regs /\ DictHas(regs[super_klasses[n]], id)
    THEN [regs |-> regs, res |-> Raise("AssertionError", ASSERT_MSG)]
    ELSE [regs |-> [c \in DOMAIN regs |->
                      IF \E n \in i..Len(super_klasses) : super_klasses[n] = c
                      THEN DictSet(regs[c], id, obj)
                      ELSE regs[c]],
          res |-> Ok(TRUE)]

RECURSIVE fan_out(_, _, _, _, _)
fan_out(regs, super_klasses, i, id, obj) ==
    IF i > Len(super_klasses)
    THEN [regs |-> regs, res |-> Ok(TRUE)]
    ELSE LET super_klass_qualname == super_klasses[i] IN
         IF super_klass_qualname \notin DOMAIN regs
         THEN [regs |-> regs, res |-> Raise("KeyError", super_klass_qualname)]
         ELSE IF DictHas(regs[super_klass_qualname], id)
              THEN [regs |-> regs, res |-> Raise("AssertionError", ASSERT_MSG)]
              ELSE fan_out([regs EXCEPT ![super_klass_qualname] = DictSet(@, id, obj)],
                           super_klasses, i + 1, id, obj)

defaultdict_touch(supers, qualname) ==
    IF qualname \in DOMAIN supers THEN supers ELSE supers @@ (qualname :> <<>>)

insert_setdefault(regs, supers, qualname, obj) ==
    IF qualname \notin DOMAIN regs
    THEN [regs |-> regs, supers |-> supers,
          res |-> Raise("NotFound", NO_REPOSITORY_MSG)]
    ELSE LET id == get_id(obj)
             written == IF DictHas(regs[qualname], id)
                        THEN regs
                        ELSE [regs EXCEPT ![qualname] = DictSet(@, id, obj)]
             touched == defaultdict_touch(supers, qualname)
         IN CHOOSE out \in {[regs |-> f.regs, supers |-> touched, res |-> f.res] :
                             f \in {fan_out(written, touched[qualname], 1, id, obj)}} : TRUE

insert(regs, supers, qualname, obj) ==
    IF qualname \notin DOMAIN regs
    THEN [regs |-> regs, supers |-> supers,
          res |-> Raise("NotFound", NO_REPOSITORY_MSG)]
    ELSE LET id == get_id(obj)
             written == [regs EXCEPT ![qualname] = DictSet(@, id, obj)]
             touched == defaultdict_touch(supers, qualname)
         IN CHOOSE out \in {[regs |-> f.regs, supers |-> touched, res |-> f.res] :
                             f \in {fan_out(written, touched[qualname], 1, id, obj)}} : TRUE

update_every_holder(regs, qualname, obj) ==
    IF qualname \notin DOMAIN regs
    THEN [regs |-> regs, res |-> Raise("NotFound", NO_REPOSITORY_MSG)]
    ELSE [regs |-> [q \in DOMAIN regs |->
                      IF q = qualname \/ DictHas(regs[q], get_id(obj))
                      THEN DictSet(regs[q], get_id(obj), obj)
                      ELSE regs[q]],
          res |-> Ok(TRUE)]

update(regs, qualname, obj) ==
    IF qualname \notin DOMAIN regs
    THEN [regs |-> regs, res |-> Raise("NotFound", NO_REPOSITORY_MSG)]
    ELSE [regs |-> [regs EXCEPT ![qualname] = DictSet(@, get_id(obj), obj)],
          res |-> Ok(TRUE)]

error_classes_not_found_only == {"NotFound"}

error_classes == {"AssertionError", "NotFound"}

error_catcher(classes, res) ==
    IF res.exc \in classes THEN Ok(FALSE) ELSE res

batch_loop_stop(regs, supers, qualname, objs, i, result, raised) ==
    LET r == insert(regs, supers, qualname, objs[i])
        outcome == error_catcher(error_classes, r.res)
    IN [regs |-> r.regs, supers |-> r.supers,
        res |-> IF outcome.exc # "none"
                THEN outcome
                ELSE Ok(DictSet(result, get_id(objs[i]), outcome.val)),
        raised |-> Append(raised, r.res.exc)]

RECURSIVE batch_loop(_, _, _, _, _, _, _)
batch_loop(regs, supers, qualname, objs, i, result, raised) ==
    IF i > Len(objs)
    THEN [regs |-> regs, supers |-> supers, res |-> Ok(result), raised |-> raised]
    ELSE CHOOSE out \in
            {LET outcome == error_catcher(error_classes, r.res) IN
             IF outcome.exc # "none"
             THEN [regs |-> r.regs, supers |-> r.supers, res |-> outcome,
                   raised |-> Append(raised, r.res.exc)]
             ELSE batch_loop(r.regs, r.supers, qualname, objs, i + 1,
                             DictSet(result, get_id(objs[i]), outcome.val),
                             Append(raised, r.res.exc))
             : r \in {insert(regs, supers, qualname, objs[i])}} : TRUE

batch_update(regs, supers, qualname, objs) ==
    batch_loop(regs, supers, qualname, objs, 1, <<>>, <<>>)

remove_cascade(regs, qualname, obj) ==
    LET id == get_id(obj) IN
    IF qualname \in DOMAIN regs /\ DictHas(regs[qualname], id)
    THEN [regs |-> [q \in DOMAIN regs |-> DictPop(regs[q], id)], res |-> Ok(None)]
    ELSE [regs |-> regs, res |-> Raise("NotFound", NOT_FOUND_MSG)]

remove(regs, qualname, obj) ==
    LET id == get_id(obj) IN
    IF qualname \in DOMAIN regs /\ DictHas(regs[qualname], id)
    THEN [regs |-> [regs EXCEPT ![qualname] = DictPop(@, id)], res |-> Ok(None)]
    ELSE [regs |-> regs, res |-> Raise("NotFound", NOT_FOUND_MSG)]

pop_default(regs, qualname, id) ==
    IF qualname \in DOMAIN regs /\ DictHas(regs[qualname], id)
    THEN [regs |-> [regs EXCEPT ![qualname] = DictPop(@, id)],
          res |-> Ok(DictGet(regs[qualname], id))]
    ELSE [regs |-> regs, res |-> Ok(None)]

pop(regs, qualname, id) ==
    IF qualname \in DOMAIN regs /\ DictHas(regs[qualname], id)
    THEN [regs |-> [regs EXCEPT ![qualname] = DictPop(@, id)],
          res |-> Ok(DictGet(regs[qualname], id))]
    ELSE [regs |-> regs, res |-> Raise("NotFound", NOT_FOUND_MSG)]

(* ------------------------------ actions -------------------------------- *)
Constructed(s) == inst[s] # NoInst

Called(op, store, arg, res, raised) ==
    /\ last' = [op |-> op, store |-> store, arg |-> arg, res |-> res, raised |-> raised]
    /\ ops' = ops + 1

Construct(s, klass) ==
    /\ ops < MaxOps
    /\ s = "r2" => Constructed("r1")
    /\ LET qualname == init_qualname(s, klass)
           store == [klass |-> klass,
                     qualname |-> qualname,
                     anc |-> ProperAncestors(klass) \cap DOMAIN REGISTERS]
       IN /\ SUPER_KLASSES_WITH_REPO' =
                init_supers(REGISTERS, SUPER_KLASSES_WITH_REPO, qualname, klass)
          /\ REGISTERS' = init_registers(REGISTERS, qualname)
          /\ inst' = [inst EXCEPT ![s] = store]
          /\ Called("construct", store, klass, Ok(None), <<>>)

Register(klass) ==
    /\ ops < MaxOps
    /\ REGISTERS' = register_klass(REGISTERS, klass)
    /\ Called("register", NoInst, klass, Ok(klass), <<>>)
    /\ UNCHANGED <<SUPER_KLASSES_WITH_REPO, inst>>

ClearAll ==
    /\ ops < MaxOps
    /\ REGISTERS' = clear_all_repos(REGISTERS)
    /\ Called("clear_all", NoInst, None, Ok(None), <<>>)
    /\ UNCHANGED <<SUPER_KLASSES_WITH_REPO, inst>>

Insert(s, obj) ==
    /\ ops < MaxOps
    /\ Constructed(s)
    /\ \E r \in {insert(REGISTERS, SUPER_KLASSES_WITH_REPO, inst[s].qualname, obj)} :
        /\ REGISTERS' = r.regs
        /\ SUPER_KLASSES_WITH_REPO' = r.supers
        /\ Called("insert", inst[s], obj, r.res, <<>>)
    /\ UNCHANGED inst

Update(s, obj) ==
    /\ ops < MaxOps
    /\ Constructed(s)
    /\ \E r \in {update(REGISTERS, inst[s].qualname, obj)} :
        /\ REGISTERS' = r.regs
        /\ Called("update", inst[s], obj, r.res, <<>>)
    /\ UNCHANGED <<SUPER_KLASSES_WITH_REPO, inst>>

BatchUpdate(s, objs) ==
    /\ ops < MaxOps
    /\ Constructed(s)
    /\ \E r \in {batch_update(REGISTERS, SUPER_KLASSES_WITH_REPO, inst[s].qualname, objs)} :
        /\ REGISTERS' = r.regs
        /\ SUPER_KLASSES_WITH_REPO' = r.supers
        /\ Called("batch_update", inst[s], objs, r.res, r.raised)
    /\ UNCHANGED inst

Remove(s, obj) ==
    /\ ops < MaxOps
    /\ Constructed(s)
    /\ \E r \in {remove(REGISTERS, inst[s].qualname, obj)} :
        /\ REGISTERS' = r.regs
        /\ Called("remove", inst[s], obj, r.res, <<>>)
    /\ UNCHANGED <<SUPER_KLASSES_WITH_REPO, inst>>

Pop(s, id) ==
    /\ ops < MaxOps
    /\ Constructed(s)
    /\ \E r \in {pop(REGISTERS, inst[s].qualname, id)} :
        /\ REGISTERS' = r.regs
        /\ Called("pop", inst[s], id, r.res, <<>>)
    /\ UNCHANGED <<SUPER_KLASSES_WITH_REPO, inst>>

Query(op, s, arg, res) ==
    /\ ops < MaxOps
    /\ Constructed(s)
    /\ Called(op, inst[s], arg, res, <<>>)
    /\ UNCHANGED <<REGISTERS, SUPER_KLASSES_WITH_REPO, inst>>

Get(s, id) == Query("get", s, id, get(REGISTERS, inst[s].qualname, id))

GetOrNone(s, id) == Query("get_or_none", s, id, get_or_none(REGISTERS, inst[s].qualname, id))

Exists(s, id) == Query("exists", s, id, exists(REGISTERS, inst[s].qualname, id))

All(s) == Query("all", s, None, all(REGISTERS, inst[s].qualname))

Count(s, p) == Query("count", s, p, count(REGISTERS, inst[s].qualname, p))

Filter(s, p) == Query("filter", s, p, filter(REGISTERS, inst[s].qualname, p))

(* Classes that may carry the register_klass decorator when the module is *)
(* imported: the registry table starts with an empty bucket for each.     *)
Decorated == {get_dotted_path("Animal"), get_dotted_path("Dog")}

Init ==
    /\ \E R \in SUBSET Decorated : REGISTERS = [q \in R |-> <<>>]
    /\ SUPER_KLASSES_WITH_REPO = <<>>
    /\ inst = [s \in Handles |-> NoInst]
    /\ last = [op |-> "start", store |-> NoInst, arg |-> None, res |-> Ok(None), raised |-> <<>>]
    /\ ops = 0

Next ==
    \/ \E s \in Handles, klass \in Klasses : Construct(s, klass)
    \/ \E klass \in Klasses : Register(klass)
    \/ ClearAll
    \/ \E s \in Handles, obj \in Objs : Insert(s, obj)
    \/ \E s \in Handles, obj \in Objs : Update(s, obj)
    \/ \E s \in Handles, objs \in Batches : BatchUpdate(s, objs)
    \/ \E s \in Handles, obj \in Objs : Remove(s, obj)
    \/ \E s \in Handles, id \in Ids : Pop(s, id)

Spec == Init /\ [][Next]_vars

NextQ ==
    \/ Next
    \/ \E s \in Handles, id \in Ids : Get(s, id)
    \/ \E s \in Handles, id \in Ids : GetOrNone(s, id)
    \/ \E s \in Handles, id \in Ids : Exists(s, id)
    \/ \E s \in Handles : All(s)
    \/ \E s \in Handles, p \in Predicates \cup {None} : Count(s, p)
    \/ \E s \in Handles, p \in Predicates : Filter(s, p)

SpecQ == Init /\ [][NextQ]_vars

(* The two counting queries among the operations that write the tables.   *)
(* batch_update is left to Next: it is a loop of inserts (lines 182-185)  *)
(* and reaches no table that inserts do not reach.                         *)
NextCount ==
    \/ \E s \in Handles, klass \in Klasses : Construct(s, klass)
    \/ \E klass \in Klasses : Register(klass)
    \/ ClearAll
    \/ \E s \in Handles, obj \in Objs : Insert(s, obj)
    \/ \E s \in Handles, obj \in Objs : Update(s, obj)
    \/ \E s \in Handles, obj \in Objs : Remove(s, obj)
    \/ \E s \in Handles, id \in Ids : Pop(s, id)
    \/ \E s \in Handles, p \in Predicates \cup {None} : Count(s, p)
    \/ \E s \in Handles, p \in Predicates : Filter(s, p)

SpecCount == Init /\ [][NextCount]_vars

(* ------------------------- shorthand for claims ------------------------ *)
LastQualname == last.store.qualname

StoresOf(klass) == {s \in Handles : inst[s].klass = klass}

Holds(regs, qualname, id, obj) ==
    /\ qualname \in DOMAIN regs
    /\ DictHas(regs[qualname], id)
    /\ DictGet(regs[qualname], id) = obj

Retrievable(regs, qualname, obj) ==
    /\ get(regs, qualname, get_id(obj)).exc = "none"
    /\ get(regs, qualname, get_id(obj)).val = obj
    /\ all(regs, qualname).exc = "none"
    /\ obj \in Range(all(regs, qualname).val)
    /\ \A p \in Predicates :
          predicate(p, obj) =>
             /\ filter(regs, qualname, p).exc = "none"
             /\ obj \in Range(filter(regs, qualname, p).val)

(* C1: immediately after insert(obj) through a store of class C, with     *)
(* extracted id k, get(k) through every store of C returns obj and        *)
(* exists(k) is true.                                                      *)
C1_InsertThenGet ==
    last.op = "insert" =>
        \A s \in StoresOf(last.store.klass) :
            LET k == get_id(last.arg) IN
            /\ get(REGISTERS, inst[s].qualname, k).exc = "none"
            /\ get(REGISTERS, inst[s].qualname, k).val = last.arg
            /\ exists(REGISTERS, inst[s].qualname, k).exc = "none"
            /\ exists(REGISTERS, inst[s].qualname, k).val = TRUE

C1_Witness ==
    /\ last.op = "insert"
    /\ last.res.exc = "none"
    /\ Cardinality(StoresOf(last.store.klass)) = 2
    /\ Len(REGISTERS[LastQualname]) = 2

(* C2: an insert that returns true through a store of S constructed while *)
(* a bucket for ancestor A existed makes the object retrievable through   *)
(* A by get, all and filter, whatever was constructed before.             *)
C2_InsertPropagates ==
    (last.op = "insert" /\ last.res.exc = "none") =>
        \A A \in last.store.anc : Retrievable(REGISTERS, A, last.arg)

(* C3: a superclass-index entry, once computed, is never changed by any   *)
(* later operation; it is computed from the buckets present at that       *)
(* moment; and an insert through a store of C writes no bucket outside    *)
(* C's own and those listed in C's entry.                                  *)
C3_MemoFrozen ==
    [][/\ \A q \in DOMAIN SUPER_KLASSES_WITH_REPO :
             /\ q \in DOMAIN SUPER_KLASSES_WITH_REPO'
             /\ SUPER_KLASSES_WITH_REPO'[q] = SUPER_KLASSES_WITH_REPO[q]
       /\ \A q \in DOMAIN SUPER_KLASSES_WITH_REPO' \ DOMAIN SUPER_KLASSES_WITH_REPO :
             Range(SUPER_KLASSES_WITH_REPO'[q]) \subseteq DOMAIN REGISTERS
       /\ last'.op = "insert" =>
             \A A \in DOMAIN REGISTERS :
                (/\ A # last'.store.qualname
                 /\ A \notin Range(SUPER_KLASSES_WITH_REPO[last'.store.qualname]))
                => (A \in DOMAIN REGISTERS' /\ REGISTERS'[A] = REGISTERS[A])
      ]_vars

C3_Witness ==
    /\ last.op = "insert"
    /\ last.res.exc = "none"
    /\ last.store.klass = "Dog"
    /\ "zoo.Animal" \in last.store.anc
    /\ "zoo.Animal" \notin Range(SUPER_KLASSES_WITH_REPO["zoo.Dog"])
    /\ REGISTERS["zoo.Animal"] = <<>>

(* ------------------- shorthand for the step properties ----------------- *)
StepQualname == last'.store.qualname

StepId == IF last'.op = "pop" THEN last'.arg ELSE get_id(last'.arg)

OthersUnchanged(q) ==
    /\ DOMAIN REGISTERS' = DOMAIN REGISTERS
    /\ \A c \in DOMAIN REGISTERS \ {q} : REGISTERS'[c] = REGISTERS[c]

RestOfBucketUnchanged(q, id) ==
    \A k \in DictKeys(REGISTERS[q]) \ {id} :
        /\ DictHas(REGISTERS'[q], k)
        /\ DictGet(REGISTERS'[q], k) = DictGet(REGISTERS[q], k)

IndexedAncestors(q) == Range(SUPER_KLASSES_WITH_REPO[q]) \ {q}

SameResult(a, b) == a.exc = b.exc /\ a.msg = b.msg /\ a.val = b.val

SameEffect(a, b) == a.regs = b.regs /\ SameResult(a.res, b.res)

(* Positions of the index entry idx at which the id check of an insert    *)
(* through q fails: the bucket already holds the id, or it is q's own     *)
(* bucket, which the insert has just written.                              *)
ConflictAt(idx, q, id) ==
    {i \in 1..Len(idx) : idx[i] = q \/ DictHas(REGISTERS[idx[i]], id)}

LastOccurrence(objs, i) == \A j \in (i + 1)..Len(objs) : get_id(objs[j]) # get_id(objs[i])

(* C4: update(obj) through the store of S returns true and writes only    *)
(* S's own bucket entry for obj's id; every other bucket, every other     *)
(* entry of S's bucket and the superclass index are unchanged.            *)
C4_UpdateOwnBucketOnly ==
    [][last'.op = "update" =>
          /\ last'.res.exc = "none"
          /\ last'.res.val = TRUE
          /\ OthersUnchanged(StepQualname)
          /\ Holds(REGISTERS', StepQualname, StepId, last'.arg)
          /\ DictKeys(REGISTERS'[StepQualname]) = DictKeys(REGISTERS[StepQualname]) \cup {StepId}
          /\ RestOfBucketUnchanged(StepQualname, StepId)
          /\ SUPER_KLASSES_WITH_REPO' = SUPER_KLASSES_WITH_REPO
      ]_vars

C4_Witness ==
    /\ last.op = "update"
    /\ Holds(REGISTERS, LastQualname, get_id(last.arg), last.arg)
    /\ \E A \in IndexedAncestors(LastQualname) :
          /\ DictHas(REGISTERS[A], get_id(last.arg))
          /\ DictGet(REGISTERS[A], get_id(last.arg)) # last.arg

(* C5: a successful remove(obj) or pop(id) through the store of S deletes *)
(* the id from S's own bucket only; every other bucket keeps what it      *)
(* held, and pop returns the object S's bucket held.                      *)
C5_RemoveOwnBucketOnly ==
    [][(last'.op \in {"remove", "pop"} /\ last'.res.exc = "none") =>
          /\ DictHas(REGISTERS[StepQualname], StepId)
          /\ OthersUnchanged(StepQualname)
          /\ ~DictHas(REGISTERS'[StepQualname], StepId)
          /\ DictKeys(REGISTERS'[StepQualname]) = DictKeys(REGISTERS[StepQualname]) \ {StepId}
          /\ RestOfBucketUnchanged(StepQualname, StepId)
          /\ SUPER_KLASSES_WITH_REPO' = SUPER_KLASSES_WITH_REPO
          /\ last'.op = "pop" => last'.res.val = DictGet(REGISTERS[StepQualname], StepId)
      ]_vars

C5_Witness ==
    /\ last.op = "pop"
    /\ last.res.exc = "none"
    /\ last.res.val \in Objs
    /\ \E A \in IndexedAncestors(LastQualname) :
          Holds(REGISTERS, A, last.arg, last.res.val)

(* C6: for an id absent from the store's own bucket, remove and pop fail  *)
(* with NotFound and change neither the registry table nor the superclass *)
(* index; get fails with NotFound; get_or_none returns None.              *)
C6_AbsentId ==
    /\ [](\A s \in Handles, id \in Ids :
            (Constructed(s) /\ ~DictHas(REGISTERS[inst[s].qualname], id)) =>
               /\ get(REGISTERS, inst[s].qualname, id).exc = "NotFound"
               /\ get_or_none(REGISTERS, inst[s].qualname, id).exc = "none"
               /\ get_or_none(REGISTERS, inst[s].qualname, id).val = None)
    /\ [][(/\ last'.op \in {"remove", "pop"}
           /\ ~DictHas(REGISTERS[StepQualname], StepId)) =>
             /\ last'.res.exc = "NotFound"
             /\ REGISTERS' = REGISTERS
             /\ SUPER_KLASSES_WITH_REPO' = SUPER_KLASSES_WITH_REPO
         ]_vars

C6_Witness ==
    /\ last.op \in {"remove", "pop"}
    /\ last.res.exc = "NotFound"
    /\ \E c \in DOMAIN REGISTERS \ {LastQualname} :
          DictHas(REGISTERS[c], IF last.op = "pop" THEN last.arg ELSE get_id(last.arg))

(* C7 (as stated): when an object of the batch triggers the identity-     *)
(* conflict assertion at an ancestor bucket, batch_update aborts with     *)
(* that error instead of recording a per-item failure and continuing.     *)
C7_ConflictAbortsBatch ==
    (/\ last.op = "batch_update"
     /\ "AssertionError" \in Range(last.raised)
     /\ LastQualname \notin Range(SUPER_KLASSES_WITH_REPO[LastQualname])) =>
        last.res.exc = "AssertionError"

(* C7 (amended): batch_update catches the identity-conflict assertion: it *)
(* returns its mapping normally, has attempted every object of the batch, *)
(* maps the id of an object that raised the assertion to a failure, and   *)
(* every object's own-bucket write has happened.                           *)
C7_ConflictCaught ==
    last.op = "batch_update" =>
        /\ last.res.exc = "none"
        /\ Len(last.raised) = Len(last.arg)
        /\ \A i \in 1..Len(last.arg) :
              LastOccurrence(last.arg, i) =>
                 /\ Holds(REGISTERS, LastQualname, get_id(last.arg[i]), last.arg[i])
                 /\ DictHas(last.res.val, get_id(last.arg[i]))
                 /\ last.raised[i] = "AssertionError" =>
                       DictGet(last.res.val, get_id(last.arg[i])) # TRUE

C7_Witness ==
    /\ last.op = "batch_update"
    /\ Len(last.arg) = 2
    /\ last.raised = <<"AssertionError", "none">>
    /\ last.res.exc = "none"

CleanInBatch(idx, q, objs, i) ==
    /\ ConflictAt(idx, q, get_id(objs[i])) = {}
    /\ idx = <<>> \/ \A k \in 1..(i - 1) : get_id(objs[k]) # get_id(objs[i])

C9_NoConflictingIdentity ==
    \A S \in DOMAIN SUPER_KLASSES_WITH_REPO :
       \A A \in Range(SUPER_KLASSES_WITH_REPO[S]) :
          \A id \in Ids :
             (/\ S \in DOMAIN REGISTERS
              /\ A \in DOMAIN REGISTERS
              /\ DictHas(REGISTERS[S], id)
              /\ DictHas(REGISTERS[A], id)) =>
                DictGet(REGISTERS[S], id) = DictGet(REGISTERS[A], id)

(* C10: two stores constructed for the same class are interchangeable:    *)
(* every query gives the same result through either, and every mutation   *)
(* through either has the same outcome and the same effect on the         *)
(* registry table and the superclass index.                                *)
C10_Borg ==
    \A s1, s2 \in Handles :
       (s1 # s2 /\ Constructed(s1) /\ Constructed(s2) /\ inst[s1].klass = inst[s2].klass) =>
          LET q1 == inst[s1].qualname
              q2 == inst[s2].qualname
          IN /\ \A id \in Ids :
                   /\ SameResult(exists(REGISTERS, q1, id), exists(REGISTERS, q2, id))
                   /\ SameResult(get(REGISTERS, q1, id), get(REGISTERS, q2, id))
                   /\ SameResult(get_or_none(REGISTERS, q1, id), get_or_none(REGISTERS, q2, id))
                   /\ SameEffect(pop(REGISTERS, q1, id), pop(REGISTERS, q2, id))
             /\ SameResult(all(REGISTERS, q1), all(REGISTERS, q2))
             /\ \A p \in Predicates :
                   /\ SameResult(filter(REGISTERS, q1, p), filter(REGISTERS, q2, p))
                   /\ SameResult(count(REGISTERS, q1, p), count(REGISTERS, q2, p))
             /\ SameResult(count(REGISTERS, q1, None), count(REGISTERS, q2, None))
             /\ \A obj \in Objs :
                   /\ \A a \in {insert(REGISTERS, SUPER_KLASSES_WITH_REPO, q1, obj)},
                         b \in {insert(REGISTERS, SUPER_KLASSES_WITH_REPO, q2, obj)} :
                         SameEffect(a, b) /\ a.supers = b.supers
                   /\ SameEffect(update(REGISTERS, q1, obj), update(REGISTERS, q2, obj))
                   /\ SameEffect(remove(REGISTERS, q1, obj), remove(REGISTERS, q2, obj))

C10_Witness ==
    /\ last.op = "insert"
    /\ last.res.exc = "none"
    /\ \A s \in Handles :
          /\ inst[s].klass = last.store.klass
          /\ get(REGISTERS, inst[s].qualname, get_id(last.arg)).exc = "none"
          /\ get(REGISTERS, inst[s].qualname, get_id(last.arg)).val = last.arg

(* C11: register(C) leaves C with an existing, empty bucket, so a second  *)
(* register(C) right after changes nothing more; every other class's     *)
(* bucket (ancestors that received C's objects included) and the whole    *)
(* superclass index are unchanged.                                         *)
C11_RegisterResets ==
    [][last'.op = "register" =>
          LET qualname == get_dotted_path(last'.arg) IN
          /\ qualname \in DOMAIN REGISTERS'
          /\ REGISTERS'[qualname] = <<>>
          /\ register_klass(REGISTERS', last'.arg) = REGISTERS'
          /\ DOMAIN REGISTERS' = DOMAIN REGISTERS \cup {qualname}
          /\ \A c \in DOMAIN REGISTERS \ {qualname} : REGISTERS'[c] = REGISTERS[c]
          /\ SUPER_KLASSES_WITH_REPO' = SUPER_KLASSES_WITH_REPO
      ]_vars

C11_Witness ==
    /\ last.op = "register"
    /\ last.arg = "Dog"
    /\ REGISTERS["zoo.Dog"] = <<>>
    /\ StoresOf("Dog") # {}
    /\ \A s \in Handles : Constructed(s) => inst[s].klass = "Dog"
    /\ "zoo.Animal" \in Range(SUPER_KLASSES_WITH_REPO["zoo.Dog"])
    /\ REGISTERS["zoo.Animal"] # <<>>

(* Buckets that hold obj under its id after the insert outcome r. *)
WrittenBy(r, obj) == {c \in DOMAIN r.regs : Holds(r.regs, c, get_id(obj), obj)}

FreshId(regs, id) == \A c \in DOMAIN regs : ~DictHas(regs[c], id)

(* C12: clear_all empties every bucket and keeps the bucket keys, the     *)
(* whole superclass index and the stores; afterwards no operation of a    *)
(* store constructed before meets a missing bucket, and an insert through *)
(* it has the same outcome and reaches the same buckets as an insert of   *)
(* an unused id had before the clear.                                      *)
C12_ClearAllKeepsKeys ==
    [][last'.op = "clear_all" =>
          /\ DOMAIN REGISTERS' = DOMAIN REGISTERS
          /\ \A c \in DOMAIN REGISTERS' : REGISTERS'[c] = <<>>
          /\ SUPER_KLASSES_WITH_REPO' = SUPER_KLASSES_WITH_REPO
          /\ inst' = inst
          /\ \A s \in Handles :
                Constructed(s) =>
                   /\ all(REGISTERS', inst[s].qualname).exc = "none"
                   /\ count(REGISTERS', inst[s].qualname, None).exc = "none"
                   /\ \A obj \in Objs :
                         \E after \in {insert(REGISTERS', SUPER_KLASSES_WITH_REPO',
                                              inst[s].qualname, obj)} :
                            /\ after.res.exc # "NotFound"
                            /\ after.res.exc # "KeyError"
                            /\ inst[s].qualname \in WrittenBy(after, obj)
                            /\ after.supers = SUPER_KLASSES_WITH_REPO
                            /\ FreshId(REGISTERS, get_id(obj)) =>
                                  \E before \in {insert(REGISTERS, SUPER_KLASSES_WITH_REPO,
                                                        inst[s].qualname, obj)} :
                                     /\ SameResult(before.res, after.res)
                                     /\ WrittenBy(before, obj) = WrittenBy(after, obj)
      ]_vars

C12_Witness ==
    /\ last.op = "clear_all"
    /\ ops >= 3
    /\ \A c \in DOMAIN REGISTERS : REGISTERS[c] = <<>>
    /\ \E s \in Handles :
          /\ Constructed(s)
          /\ IndexedAncestors(inst[s].qualname) # {}
          /\ \A obj \in Objs :
                LET r == insert(REGISTERS, SUPER_KLASSES_WITH_REPO, inst[s].qualname, obj)
                IN r.res.exc = "none"
                   /\ IndexedAncestors(inst[s].qualname) \subseteq WrittenBy(r, obj)

Satisfying(bucket, p) == {i \in 1..Len(bucket) : predicate(p, bucket[i].o)}

(* C14: in every reachable state, through every store and for every      *)
(* predicate p, count(p) is the length of filter(p), count() is the size  *)
(* of the store's bucket and filter(p) lists exactly the objects of the   *)
(* store's own bucket that satisfy p, each once; and a count or filter    *)
(* call returns these values and changes no state.                         *)
C14_CountIsFilterLength ==
    /\ [](\A s \in Handles :
            Constructed(s) =>
               LET qualname == inst[s].qualname
                   bucket == REGISTERS[qualname]
               IN /\ count(REGISTERS, qualname, None).exc = "none"
                  /\ count(REGISTERS, qualname, None).val = Len(bucket)
                  /\ \A p \in Predicates :
                        \E filtered \in {filter(REGISTERS, qualname, p)},
                           counted \in {count(REGISTERS, qualname, p)} :
                           /\ filtered.exc = "none"
                           /\ counted.exc = "none"
                           /\ counted.val = Len(filtered.val)
                           /\ Len(filtered.val) = Cardinality(Satisfying(bucket, p))
                           /\ Range(filtered.val) = {bucket[i].o : i \in Satisfying(bucket, p)})
    /\ [][last'.op \in {"count", "filter"} =>
             /\ REGISTERS' = REGISTERS
             /\ SUPER_KLASSES_WITH_REPO' = SUPER_KLASSES_WITH_REPO
             /\ inst' = inst
             /\ last'.res.exc = "none"
             /\ last'.op = "filter" =>
                   SameResult(last'.res, filter(REGISTERS, StepQualname, last'.arg))
             /\ (last'.op = "count" /\ last'.arg = None) =>
                   last'.res.val = Len(REGISTERS[StepQualname])
             /\ (last'.op = "count" /\ last'.arg # None) =>
                   last'.res.val = Len(filter(REGISTERS, StepQualname, last'.arg).val)
         ]_vars

(* C15: the superclass-index entry computed at the first construction of  *)
(* a store for class C lists exactly the proper ancestors of C (never C   *)
(* itself) that have a registry bucket at that moment, also when C was    *)
(* registered before its first store was constructed.                      *)
C15_IndexIsProperAncestors ==
    [][(last'.op = "construct" /\ StepQualname \notin DOMAIN SUPER_KLASSES_WITH_REPO) =>
          /\ StepQualname \in DOMAIN SUPER_KLASSES_WITH_REPO'
          /\ StepQualname \notin Range(SUPER_KLASSES_WITH_REPO'[StepQualname])
          /\ Range(SUPER_KLASSES_WITH_REPO'[StepQualname]) =
                ProperAncestors(last'.arg) \cap DOMAIN REGISTERS
      ]_vars

(* C16: an insert through the store of S raises the identity conflict     *)
(* only when an indexed ancestor bucket already holds the id under a      *)
(* different object; when every indexed ancestor bucket that holds the id *)
(* holds the inserted object itself (a repeated insert, or an insert      *)
(* after remove or pop through S), the insert returns true.  Stated for   *)
(* stores whose class is not listed in its own index entry.                *)
C16_ConflictOnlyOnDifferentObject ==
    [][(/\ last'.op = "insert"
        /\ StepQualname \notin Range(SUPER_KLASSES_WITH_REPO[StepQualname])) =>
          /\ last'.res.exc = "AssertionError" =>
                \E A \in Range(SUPER_KLASSES_WITH_REPO[StepQualname]) :
                   /\ DictHas(REGISTERS[A], StepId)
                   /\ DictGet(REGISTERS[A], StepId) # last'.arg
          /\ (\A A \in Range(SUPER_KLASSES_WITH_REPO[StepQualname]) :
                 DictHas(REGISTERS[A], StepId) =>
                    DictGet(REGISTERS[A], StepId) = last'.arg) =>
                /\ last'.res.exc = "none"
                /\ last'.res.val = TRUE
      ]_vars

BucketGot(c, id, obj) ==
    /\ Holds(REGISTERS', c, id, obj)
    /\ DictKeys(REGISTERS'[c]) = DictKeys(REGISTERS[c]) \cup {id}
    /\ RestOfBucketUnchanged(c, id)

(* C17: insert writes its own bucket first and then goes through the      *)
(* index entry in order, checking and then writing each bucket.  When the *)
(* assertion fails at an entry, the own bucket and every bucket earlier   *)
(* in the entry map the id to the new object, the bucket that failed the  *)
(* check and all later ones are unchanged, and nothing is rolled back; an *)
(* insert that returns true has written the own bucket and every bucket   *)
(* of the entry.                                                           *)
C17_InsertOrderOfEffects ==
    [][last'.op = "insert" =>
          LET q == StepQualname
              idx == SUPER_KLASSES_WITH_REPO[q]
              conflicts == ConflictAt(idx, q, StepId)
              first == IF conflicts = {}
                       THEN Len(idx) + 1
                       ELSE CHOOSE i \in conflicts : \A n \in conflicts : i <= n
          IN /\ DOMAIN REGISTERS' = DOMAIN REGISTERS
             /\ SUPER_KLASSES_WITH_REPO' = SUPER_KLASSES_WITH_REPO
             /\ BucketGot(q, StepId, last'.arg)
             /\ \A i \in 1..(first - 1) : BucketGot(idx[i], StepId, last'.arg)
             /\ \A i \in first..Len(idx) :
                   idx[i] # q => REGISTERS'[idx[i]] = REGISTERS[idx[i]]
             /\ \A c \in DOMAIN REGISTERS \ (Range(idx) \cup {q}) :
                   REGISTERS'[c] = REGISTERS[c]
             /\ last'.res.exc = IF conflicts = {} THEN "none" ELSE "AssertionError"
      ]_vars

C17_Witness ==
    /\ last.op = "insert"
    /\ last.res.exc = "AssertionError"
    /\ LastQualname = "zoo.Puppy"
    /\ SUPER_KLASSES_WITH_REPO["zoo.Puppy"] = <<"zoo.Dog", "zoo.Animal">>
    /\ Holds(REGISTERS, "zoo.Puppy", get_id(last.arg), last.arg)
    /\ Holds(REGISTERS, "zoo.Dog", get_id(last.arg), last.arg)
    /\ DictHas(REGISTERS["zoo.Animal"], get_id(last.arg))
    /\ DictGet(REGISTERS["zoo.Animal"], get_id(last.arg)) # last.arg

(* C18: constructing a store for a class whose bucket and index entry     *)
(* already exist changes neither table; a construction never changes an   *)
(* existing bucket or an existing index entry, and it adds a bucket or an *)
(* entry only for its own class and only when the class had none.          *)
C18_ReconstructChangesNothing ==
    [][last'.op = "construct" =>
          /\ (/\ StepQualname \in DOMAIN REGISTERS
              /\ StepQualname \in DOMAIN SUPER_KLASSES_WITH_REPO) =>
                /\ REGISTERS' = REGISTERS
                /\ SUPER_KLASSES_WITH_REPO' = SUPER_KLASSES_WITH_REPO
          /\ \A c \in DOMAIN REGISTERS :
                c \in DOMAIN REGISTERS' /\ REGISTERS'[c] = REGISTERS[c]
          /\ \A c \in DOMAIN SUPER_KLASSES_WITH_REPO :
                /\ c \in DOMAIN SUPER_KLASSES_WITH_REPO'
                /\ SUPER_KLASSES_WITH_REPO'[c] = SUPER_KLASSES_WITH_REPO[c]
          /\ DOMAIN REGISTERS' \subseteq DOMAIN REGISTERS \cup {StepQualname}
          /\ DOMAIN SUPER_KLASSES_WITH_REPO' \subseteq
                DOMAIN SUPER_KLASSES_WITH_REPO \cup {StepQualname}
          /\ StepQualname \in DOMAIN REGISTERS'
          /\ StepQualname \in DOMAIN SUPER_KLASSES_WITH_REPO'
      ]_vars

C18_Witness ==
    /\ last.op = "construct"
    /\ Cardinality(StoresOf(last.arg)) = 2
    /\ Len(REGISTERS[LastQualname]) = 2
    /\ IndexedAncestors(LastQualname) # {}

(* C19: an insert, through a constructed store, of an object whose id is  *)
(* present in no bucket of the registry table returns true and does not   *)
(* raise the identity-conflict assertion, whatever the earlier order of   *)
(* register and construct calls.                                           *)
C19_FreshInsertSucceeds ==
    [][(last'.op = "insert" /\ FreshId(REGISTERS, StepId)) =>
          /\ last'.res.exc = "none"
          /\ last'.res.val = TRUE
      ]_vars

(* C20: in every reachable state every class for which a store has been   *)
(* constructed and every class named in an index entry has a bucket, and  *)
(* no step deletes a bucket key; so no operation of a constructed store   *)
(* meets a missing bucket and the fan-out of insert never addresses one.  *)
C20_BucketsExist ==
    /\ [](/\ \A s \in Handles :
                Constructed(s) =>
                   /\ inst[s].qualname \in DOMAIN REGISTERS
                   /\ inst[s].qualname \in DOMAIN SUPER_KLASSES_WITH_REPO
          /\ \A q \in DOMAIN SUPER_KLASSES_WITH_REPO :
                /\ q \in DOMAIN REGISTERS
                /\ Range(SUPER_KLASSES_WITH_REPO[q]) \subseteq DOMAIN REGISTERS
          /\ last.res.exc # "KeyError"
          /\ last.res.msg # NO_REPOSITORY_MSG
          /\ \A i \in DOMAIN last.raised : last.raised[i] # "KeyError")
    /\ [][DOMAIN REGISTERS \subseteq DOMAIN REGISTERS']_vars

C20_Witness ==
    /\ last.op = "register"
    /\ last.arg = "Animal"
    /\ \E s \in StoresOf("Puppy") :
          /\ SUPER_KLASSES_WITH_REPO[inst[s].qualname] = <<"zoo.Dog", "zoo.Animal">>
          /\ REGISTERS["zoo.Dog"] # <<>>
====
